---- MODULE Spec2Model ----
(***************************************************************************)
(* Model of backend/api/views.py: the stop planner inside calculate_route  *)
(* and the log generator generate_eld_logs / get_status_from_stop.         *)
(*                                                                         *)
(* Units.  Distances are whole miles.  Times (hours in the source) are     *)
(* whole minutes, so 0.5 h = 30 and 11 h = 660; the source's hour          *)
(* constants are kept in hours and converted with Hours(_).  The inputs    *)
(* are whole miles and quarter hours: on these the source's float          *)
(* arithmetic yields the same stops and iteration counts as the exact      *)
(* arithmetic used here, and round(x, 1) meets only exact ties.            *)
(* hours_driven of a log entry is kept in tenths of an hour.               *)
(***************************************************************************)
EXTENDS Integers, Sequences, FiniteSets, TLC

\* ---------------------------------------------------------------- bounds
\* largest trip distance explored, in steps of 20 miles
MaxDistanceSteps == 120

\* ------------------------------------------------------------- constants
MinutesPerHour == 60
MAX_DRIVING_HOURS == 11
MAX_DUTY_HOURS == 14
REQUIRED_BREAK_AFTER == 8
\* 0.5 h, in minutes
BREAK_DURATION == 30
OFF_DUTY_REQUIRED == 10
MAX_CYCLE_HOURS == 70
\* literals of the planning loop
FUEL_INTERVAL == 1000
\* 0.5 h, in minutes
FUEL_DURATION == 30
\* 1 h, in minutes: duration of Pickup and of Dropoff
LOAD_DURATION == 60
SEGMENT_CAP == 2
AVERAGE_SPEED == 60
MinutesPerDay == 1440

Hours(h) == h * MinutesPerHour

Min(a, b) == IF a <= b THEN a ELSE b

\* ---------------------------------------------------------------- inputs
\* route_data['distance'] as the haversine resolver can deliver it (>= 0)
Distances == {20 * k : k \in 0..MaxDistanceSteps} \cup {1, 119, 121, 961, 1081}

\* a distance the planner can be handed when called with a resolved distance
\* that was not validated
NegativeDistances == {-120, -1}

\* float(data.get('current_cycle_used', 0)), in minutes:
\* -1 h, 0, 0.5 h, 3 h, 5.25 h, 10.5 h, 11 h, 14 h, 70 h
InitialCycles == {-60, 0, 30, 180, 315, 630, 660, 840, 4200}

\* datetime.now(), minutes since the midnight that starts day 0
StartClocks == {0, 615, 1430}

pickup_location == "pickup"
dropoff_location == "dropoff"

\* ------------------------------------------------------------ stop types
Pickup == "Pickup"
FuelStop == "Fuel Stop"
Break == "30-min Break"
Rest == "10-hour Rest"
Dropoff == "Dropoff"

\* the characters of a stop type, for Python's substring test `in`
Chars(t) ==
    CASE t = "Pickup" -> <<"P","i","c","k","u","p">>
      [] t = "Dropoff" -> <<"D","r","o","p","o","f","f">>
      [] t = "Fuel Stop" -> <<"F","u","e","l"," ","S","t","o","p">>
      [] t = "30-min Break" -> <<"3","0","-","m","i","n"," ","B","r","e","a","k">>
      [] t = "10-hour Rest" -> <<"1","0","-","h","o","u","r"," ","R","e","s","t">>
      [] t = "Rest" -> <<"R","e","s","t">>
      [] t = "Break" -> <<"B","r","e","a","k">>
      [] t = "Fuel" -> <<"F","u","e","l">>

\* Python: sub in s
In(sub, s) ==
    LET a == Chars(sub)
        b == Chars(s)
    IN \E k \in 0..(Len(b) - Len(a)) :
          \A j \in 1..Len(a) : b[k + j] = a[j]

\* variant: the 'Fuel' branch is missing
get_status_from_stop_NoFuel(stop_type) ==
    IF In("Rest", stop_type) THEN "OFF"
    ELSE IF In("Break", stop_type) THEN "SB"
    ELSE IF stop_type \in {"Pickup", "Dropoff"} THEN "ON"
    ELSE "D"

\* get_status_from_stop(stop_type)
get_status_from_stop(stop_type) ==
    IF In("Rest", stop_type) THEN "OFF"
    ELSE IF In("Break", stop_type) THEN "SB"
    ELSE IF stop_type \in {"Pickup", "Dropoff"} THEN "ON"
    ELSE IF In("Fuel", stop_type) THEN "ON"
    ELSE "D"

\* round(x, 1) for x given in minutes; the result is in tenths of an hour.
\* A tenth of an hour is 6 minutes; an exact tie goes to the even tenth.
Round1(m) ==
    LET q == m \div 6
        r == m % 6
    IN IF r < 3 THEN q
       ELSE IF r > 3 THEN q + 1
       ELSE IF q % 2 = 0 THEN q ELSE q + 1

\* strftime('%Y-%m-%d'): the calendar day of a clock value
DateOf(t) == t \div MinutesPerDay

\* strftime('%H:%M'): the minute of the day of a clock value
TimeOf(t) == t % MinutesPerDay

VARIABLES
    pc,                  \* position in calculate_route / generate_eld_logs
    total_distance,      \* route_data['distance']
    current_cycle_used,  \* request field, in minutes
    stops,               \* the stop list
    current_hours,       \* planner: cycle hours, in minutes
    remaining_distance,  \* planner: miles still to drive
    hours_driven,        \* planner: minutes driven since the last break/rest
    distance_since_fuel, \* planner: miles since the last fuel stop
    drive_hours,         \* planner: the last drive segment, in minutes
    driven,              \* history: sum of drive_hours * 60 so far, in miles
    iterations,          \* history: loop iterations completed
    logs,                \* generate_eld_logs: the log list
    current_time,        \* generate_eld_logs: the running clock, in minutes
    start_time,          \* history: the value datetime.now() returned
    log_hours,           \* generate_eld_logs: current_hours, in minutes
    i,                   \* generate_eld_logs: index of the next stop
    response             \* what calculate_route returns

vars == <<pc, total_distance, current_cycle_used, stops, current_hours,
          remaining_distance, hours_driven, distance_since_fuel, drive_hours,
          driven, iterations, logs, current_time, start_time, log_hours, i,
          response>>

plannerVars == <<current_hours, remaining_distance, hours_driven,
                 distance_since_fuel, drive_hours, driven, iterations>>

logVars == <<logs, current_time, start_time, log_hours, i>>

NoResponse == [status |-> 0, stops |-> <<>>, eld_logs |-> <<>>, total_distance |-> 0]

\* variant: the subtraction from total_distance is forgotten
CurrentDistance_Remaining == remaining_distance

\* total_distance - remaining_distance
CurrentDistance == total_distance - remaining_distance

InitWith(D) ==
    /\ pc = "pickup"
    /\ total_distance \in D
    /\ current_cycle_used \in InitialCycles
    /\ stops = <<>>
    /\ current_hours = current_cycle_used
    /\ remaining_distance = total_distance
    /\ hours_driven = 0
    /\ distance_since_fuel = 0
    /\ drive_hours = 0
    /\ driven = 0
    /\ iterations = 0
    /\ logs = <<>>
    /\ current_time = 0
    /\ start_time = 0
    /\ log_hours = 0
    /\ i = 0
    /\ response = NoResponse

Init == InitWith(Distances)

InitAnyDistance == InitWith(Distances \cup NegativeDistances)

\* lines 37-46: the Pickup stop and the two loop counters
AddPickup ==
    /\ pc = "pickup"
    /\ stops' = Append(stops, [type |-> Pickup, location |-> pickup_location,
                               duration |-> LOAD_DURATION,
                               distance_from_start |-> 0])
    /\ hours_driven' = 0
    /\ distance_since_fuel' = 0
    /\ pc' = "while"
    /\ UNCHANGED <<total_distance, current_cycle_used, current_hours,
                   remaining_distance, drive_hours, driven, iterations,
                   logs, current_time, start_time, log_hours, i, response>>

\* variant: the loop condition is >= 0
LoopTest_NonStrict ==
    /\ pc = "while"
    /\ pc' = IF remaining_distance >= 0 THEN "fuel" ELSE "dropoff"
    /\ UNCHANGED <<total_distance, current_cycle_used, stops, plannerVars,
                   logVars, response>>

\* line 48: while remaining_distance > 0
LoopTest ==
    /\ pc = "while"
    /\ pc' = IF remaining_distance > 0 THEN "fuel" ELSE "dropoff"
    /\ UNCHANGED <<total_distance, current_cycle_used, stops, plannerVars,
                   logVars, response>>

\* lines 49-56
CheckFuel ==
    /\ pc = "fuel"
    /\ IF distance_since_fuel >= FUEL_INTERVAL
       THEN /\ stops' = Append(stops, [type |-> FuelStop,
                                       duration |-> FUEL_DURATION,
                                       distance_from_start |-> CurrentDistance])
            /\ distance_since_fuel' = 0
       ELSE UNCHANGED <<stops, distance_since_fuel>>
    /\ pc' = "break"
    /\ UNCHANGED <<total_distance, current_cycle_used, current_hours,
                   remaining_distance, hours_driven, drive_hours, driven,
                   iterations, logVars, response>>

\* variant: the break threshold is compared with > instead of >=
CheckBreak_Strict ==
    /\ pc = "break"
    /\ IF hours_driven > Hours(REQUIRED_BREAK_AFTER)
       THEN /\ stops' = Append(stops, [type |-> Break,
                                       duration |-> BREAK_DURATION,
                                       distance_from_start |-> CurrentDistance])
            /\ hours_driven' = 0
       ELSE UNCHANGED <<stops, hours_driven>>
    /\ pc' = "rest"
    /\ UNCHANGED <<total_distance, current_cycle_used, current_hours,
                   remaining_distance, distance_since_fuel, drive_hours,
                   driven, iterations, logVars, response>>

\* lines 58-65
CheckBreak ==
    /\ pc = "break"
    /\ IF hours_driven >= Hours(REQUIRED_BREAK_AFTER)
       THEN /\ stops' = Append(stops, [type |-> Break,
                                       duration |-> BREAK_DURATION,
                                       distance_from_start |-> CurrentDistance])
            /\ hours_driven' = 0
       ELSE UNCHANGED <<stops, hours_driven>>
    /\ pc' = "rest"
    /\ UNCHANGED <<total_distance, current_cycle_used, current_hours,
                   remaining_distance, distance_since_fuel, drive_hours,
                   driven, iterations, logVars, response>>

\* variant: the rest check uses the break threshold
CheckRest_AtBreakThreshold ==
    /\ pc = "rest"
    /\ IF current_hours >= Hours(REQUIRED_BREAK_AFTER)
       THEN /\ stops' = Append(stops, [type |-> Rest,
                                       duration |-> Hours(OFF_DUTY_REQUIRED),
                                       distance_from_start |-> CurrentDistance])
            /\ current_hours' = 0
            /\ hours_driven' = 0
       ELSE UNCHANGED <<stops, current_hours, hours_driven>>
    /\ pc' = "drive"
    /\ UNCHANGED <<total_distance, current_cycle_used, remaining_distance,
                   distance_since_fuel, drive_hours, driven, iterations,
                   logVars, response>>

\* variant: the Rest forgets to reset current_hours
CheckRest_NoReset ==
    /\ pc = "rest"
    /\ IF current_hours >= Hours(MAX_DRIVING_HOURS)
       THEN /\ stops' = Append(stops, [type |-> Rest,
                                       duration |-> Hours(OFF_DUTY_REQUIRED),
                                       distance_from_start |-> CurrentDistance])
            /\ hours_driven' = 0
            /\ UNCHANGED current_hours
       ELSE UNCHANGED <<stops, current_hours, hours_driven>>
    /\ pc' = "drive"
    /\ UNCHANGED <<total_distance, current_cycle_used, remaining_distance,
                   distance_since_fuel, drive_hours, driven, iterations,
                   logVars, response>>

\* variant: the Rest resets every counter, distance_since_fuel included
CheckRest_ResetsFuel ==
    /\ pc = "rest"
    /\ IF current_hours >= Hours(MAX_DRIVING_HOURS)
       THEN /\ stops' = Append(stops, [type |-> Rest,
                                       duration |-> Hours(OFF_DUTY_REQUIRED),
                                       distance_from_start |-> CurrentDistance])
            /\ current_hours' = 0
            /\ hours_driven' = 0
            /\ distance_since_fuel' = 0
       ELSE UNCHANGED <<stops, current_hours, hours_driven, distance_since_fuel>>
    /\ pc' = "drive"
    /\ UNCHANGED <<total_distance, current_cycle_used, remaining_distance,
                   drive_hours, driven, iterations, logVars, response>>

\* variant: the 70-hour cycle cap is enforced with a 34-hour restart
CheckRest_CycleCap ==
    /\ pc = "rest"
    /\ IF current_hours >= Hours(MAX_DRIVING_HOURS)
       THEN /\ stops' = Append(stops, [type |-> Rest,
                                       duration |-> IF current_hours >= Hours(MAX_CYCLE_HOURS)
                                                    THEN Hours(34)
                                                    ELSE Hours(OFF_DUTY_REQUIRED),
                                       distance_from_start |-> CurrentDistance])
            /\ current_hours' = 0
            /\ hours_driven' = 0
       ELSE UNCHANGED <<stops, current_hours, hours_driven>>
    /\ pc' = "drive"
    /\ UNCHANGED <<total_distance, current_cycle_used, remaining_distance,
                   distance_since_fuel, drive_hours, driven, iterations,
                   logVars, response>>

\* lines 67-75
CheckRest ==
    /\ pc = "rest"
    /\ IF current_hours >= Hours(MAX_DRIVING_HOURS)
       THEN /\ stops' = Append(stops, [type |-> Rest,
                                       duration |-> Hours(OFF_DUTY_REQUIRED),
                                       distance_from_start |-> CurrentDistance])
            /\ current_hours' = 0
            /\ hours_driven' = 0
       ELSE UNCHANGED <<stops, current_hours, hours_driven>>
    /\ pc' = "drive"
    /\ UNCHANGED <<total_distance, current_cycle_used, remaining_distance,
                   distance_since_fuel, drive_hours, driven, iterations,
                   logVars, response>>

\* remaining_distance / 60, in minutes
HoursFor(miles) == (miles * MinutesPerHour) \div AVERAGE_SPEED

\* drive_hours * 60, in miles
MilesIn(minutes) == (minutes * AVERAGE_SPEED) \div MinutesPerHour

\* variant: every segment is a full 2 hours, the min is forgotten
DriveHours_NoMin(remaining) == Hours(SEGMENT_CAP)

\* variant: integer division, the segment is a whole number of hours
DriveHours_WholeHours(remaining) ==
    Min(Hours(SEGMENT_CAP), Hours(remaining \div AVERAGE_SPEED))

\* variant: the segment cap is 3 hours
DriveHours_CapThree(remaining) == Min(Hours(3), HoursFor(remaining))

\* line 78: min(2, remaining_distance / 60)
DriveHours(remaining) == Min(Hours(SEGMENT_CAP), HoursFor(remaining))

\* variant: line 82 is missing, distance_since_fuel is never advanced
Drive_NoFuelCount ==
    /\ pc = "drive"
    /\ drive_hours' = DriveHours(remaining_distance)
    /\ remaining_distance' = remaining_distance - MilesIn(drive_hours')
    /\ current_hours' = current_hours + drive_hours'
    /\ hours_driven' = hours_driven + drive_hours'
    /\ driven' = driven + MilesIn(drive_hours')
    /\ iterations' = iterations + 1
    /\ pc' = "while"
    /\ UNCHANGED <<total_distance, current_cycle_used, stops,
                   distance_since_fuel, logVars, response>>

\* variant: line 79 is missing, remaining_distance is never reduced
Drive_NoAdvance ==
    /\ pc = "drive"
    /\ drive_hours' = DriveHours(remaining_distance)
    /\ current_hours' = current_hours + drive_hours'
    /\ hours_driven' = hours_driven + drive_hours'
    /\ distance_since_fuel' = distance_since_fuel + MilesIn(drive_hours')
    /\ driven' = driven + MilesIn(drive_hours')
    /\ iterations' = iterations + 1
    /\ pc' = "while"
    /\ UNCHANGED <<total_distance, current_cycle_used, stops,
                   remaining_distance, logVars, response>>

\* lines 77-82
Drive ==
    /\ pc = "drive"
    /\ drive_hours' = DriveHours(remaining_distance)
    /\ remaining_distance' = remaining_distance - MilesIn(drive_hours')
    /\ current_hours' = current_hours + drive_hours'
    /\ hours_driven' = hours_driven + drive_hours'
    /\ distance_since_fuel' = distance_since_fuel + MilesIn(drive_hours')
    /\ driven' = driven + MilesIn(drive_hours')
    /\ iterations' = iterations + 1
    /\ pc' = "while"
    /\ UNCHANGED <<total_distance, current_cycle_used, stops, logVars,
                   response>>

\* variant: the Dropoff block is a copy of the Pickup block, distance 0 kept
AddDropoff_AtZero ==
    /\ pc = "dropoff"
    /\ stops' = Append(stops, [type |-> Dropoff, location |-> dropoff_location,
                               duration |-> LOAD_DURATION,
                               distance_from_start |-> 0])
    /\ logs' = <<>>
    /\ \E now \in StartClocks :
          /\ current_time' = now
          /\ start_time' = now
    /\ log_hours' = current_cycle_used
    /\ i' = 1
    /\ pc' = "logs"
    /\ UNCHANGED <<total_distance, current_cycle_used, plannerVars, response>>

\* lines 84-93: the Dropoff stop and the call of generate_eld_logs, whose
\* lines 174-176 set up the log list, the clock and the hours counter
AddDropoff ==
    /\ pc = "dropoff"
    /\ stops' = Append(stops, [type |-> Dropoff, location |-> dropoff_location,
                               duration |-> LOAD_DURATION,
                               distance_from_start |-> total_distance])
    /\ logs' = <<>>
    /\ \E now \in StartClocks :
          /\ current_time' = now
          /\ start_time' = now
    /\ log_hours' = current_cycle_used
    /\ i' = 1
    /\ pc' = "logs"
    /\ UNCHANGED <<total_distance, current_cycle_used, plannerVars, response>>

\* stop.get('location', 'En Route')
LocationOf(stop) ==
    IF "location" \in DOMAIN stop THEN stop.location ELSE "En Route"

\* lines 179-186
LogEntry(stop, clock, hours) ==
    [date |-> DateOf(clock),
     time |-> TimeOf(clock),
     status |-> get_status_from_stop(stop.type),
     location |-> LocationOf(stop),
     hours_driven |-> Round1(hours),
     remarks |-> stop.type]

\* variant: a Rest resets the log counter, as the planner resets its own
NextLogHours_ResetAtRest(stop, hours) ==
    IF ~In("Rest", stop.type) THEN hours + stop.duration ELSE 0

\* lines 191-192
NextLogHours(stop, hours) ==
    IF ~In("Rest", stop.type) THEN hours + stop.duration ELSE hours

\* variant: the clock, like the hours counter, skips Rest stops
LogStop_ClockSkipsRest ==
    /\ pc = "logs"
    /\ i <= Len(stops)
    /\ logs' = Append(logs, LogEntry(stops[i], current_time, log_hours))
    /\ current_time' = IF ~In("Rest", stops[i].type)
                       THEN current_time + stops[i].duration
                       ELSE current_time
    /\ log_hours' = NextLogHours(stops[i], log_hours)
    /\ i' = i + 1
    /\ UNCHANGED <<pc, total_distance, current_cycle_used, stops,
                   plannerVars, start_time, response>>

\* lines 178-192: one iteration of the for loop
LogStop ==
    /\ pc = "logs"
    /\ i <= Len(stops)
    /\ logs' = Append(logs, LogEntry(stops[i], current_time, log_hours))
    /\ current_time' = current_time + stops[i].duration
    /\ log_hours' = NextLogHours(stops[i], log_hours)
    /\ i' = i + 1
    /\ UNCHANGED <<pc, total_distance, current_cycle_used, stops,
                   plannerVars, start_time, response>>

\* lines 194 and 95-101
ReturnResponse ==
    /\ pc = "logs"
    /\ i > Len(stops)
    /\ response' = [status |-> 200, stops |-> stops, eld_logs |-> logs,
                    total_distance |-> total_distance]
    /\ pc' = "done"
    /\ UNCHANGED <<total_distance, current_cycle_used, stops, plannerVars,
                   logVars>>

RECURSIVE PlanLoop(_, _, _, _, _, _)
\* lines 48-82 as a function of the loop state: the stop list at loop exit
PlanLoop(total, remaining, cycle, since_break, since_fuel, acc) ==
    IF remaining > 0
    THEN LET at == total - remaining
             fuel == since_fuel >= FUEL_INTERVAL
             acc1 == IF fuel
                     THEN Append(acc, [type |-> FuelStop,
                                       duration |-> FUEL_DURATION,
                                       distance_from_start |-> at])
                     ELSE acc
             since_fuel1 == IF fuel THEN 0 ELSE since_fuel
             brk == since_break >= Hours(REQUIRED_BREAK_AFTER)
             acc2 == IF brk
                     THEN Append(acc1, [type |-> Break,
                                        duration |-> BREAK_DURATION,
                                        distance_from_start |-> at])
                     ELSE acc1
             since_break1 == IF brk THEN 0 ELSE since_break
             rst == cycle >= Hours(MAX_DRIVING_HOURS)
             acc3 == IF rst
                     THEN Append(acc2, [type |-> Rest,
                                        duration |-> Hours(OFF_DUTY_REQUIRED),
                                        distance_from_start |-> at])
                     ELSE acc2
             cycle1 == IF rst THEN 0 ELSE cycle
             since_break2 == IF rst THEN 0 ELSE since_break1
             dh == DriveHours(remaining)
         IN PlanLoop(total, remaining - MilesIn(dh), cycle1 + dh,
                     since_break2 + dh, since_fuel1 + MilesIn(dh), acc3)
    ELSE acc

\* lines 33-90: the stop list calculate_route builds for a distance and an
\* initial cycle value
PlanStops(total, cycle) ==
    Append(PlanLoop(total, total, cycle, 0, 0,
                    <<[type |-> Pickup, location |-> pickup_location,
                       duration |-> LOAD_DURATION,
                       distance_from_start |-> 0]>>),
           [type |-> Dropoff, location |-> dropoff_location,
            duration |-> LOAD_DURATION, distance_from_start |-> total])

Next ==
    \/ AddPickup
    \/ LoopTest
    \/ CheckFuel
    \/ CheckBreak
    \/ CheckRest
    \/ Drive
    \/ AddDropoff
    \/ LogStop
    \/ ReturnResponse

Spec == Init /\ [][Next]_vars

\* the planner handed any resolved distance, negative ones included
SpecAnyDistance == InitAnyDistance /\ [][Next]_vars

\* the code is one sequential call: every step that is enabled is taken
FairSpec == Init /\ [][Next]_vars /\ WF_vars(Next)

\* ------------------------------------------------------ stop-list helpers
TypesOf(seq) == [k \in 1..Len(seq) |-> seq[k].type]

CountOf(t) == Cardinality({k \in 1..Len(stops) : stops[k].type = t})

HasStop(t) == \E k \in 1..Len(stops) : stops[k].type = t

\* the Dropoff stop has been appended
Planned == pc \in {"logs", "done"}

\* largest distance_from_start among the stops of the given types (0 if none)
LastDistanceOf(types) ==
    LET ds == {stops[k].distance_from_start :
                  k \in {j \in 1..Len(stops) : stops[j].type \in types}}
    IN IF ds = {} THEN 0 ELSE CHOOSE d \in ds : \A e \in ds : e <= d

\* miles driven since the last FuelStop, or since Pickup
MilesSinceFuel == driven - LastDistanceOf({FuelStop})

\* minutes driven since the last Break or Rest, or since Pickup
DrivenSinceBreak == HoursFor(driven - LastDistanceOf({Break, Rest}))

\* cumulative cycle minutes: the minutes driven since the last Rest, plus
\* initial_cycle_hours while no Rest has been inserted
CycleHours ==
    IF HasStop(Rest) THEN HoursFor(driven - LastDistanceOf({Rest}))
    ELSE current_cycle_used + HoursFor(driven)

\* ------------------------------------------------------------------ C1
\* C1: for total_distance >= 0 the stop sequence starts with a Pickup stop
\* (1 h, distance 0) and, once planned, ends with a Dropoff stop (1 h,
\* distance total_distance), with exactly one Pickup and one Dropoff.
C1_PickupFirstDropoffLast ==
    /\ pc # "pickup" =>
          /\ stops[1].type = Pickup
          /\ stops[1].duration = Hours(1)
          /\ stops[1].distance_from_start = 0
          /\ CountOf(Pickup) = 1
    /\ ~Planned => CountOf(Dropoff) = 0
    /\ Planned =>
          /\ stops[Len(stops)].type = Dropoff
          /\ stops[Len(stops)].duration = Hours(1)
          /\ stops[Len(stops)].distance_from_start = total_distance
          /\ CountOf(Dropoff) = 1
    /\ pc = "done" => response.stops = stops

C1_Witness ==
    /\ pc = "done"
    /\ total_distance > 0
    /\ Len(response.stops) > 3
    /\ response.stops[Len(response.stops)].type = Dropoff

\* ------------------------------------------------------------------ C2
\* C2: cumulative cycle hours never pass 11 while driving without a Rest
\* having been inserted, and the trip initial_cycle_hours = 10.5,
\* total_distance = 100 gets a Rest stop.
C2_RestBeforeEleven ==
    /\ iterations > 0 => CycleHours <= Hours(MAX_DRIVING_HOURS)
    /\ (Planned /\ current_cycle_used = 630 /\ total_distance = 100)
          => HasStop(Rest)

\* ------------------------------------------------------------------ C3
\* C3: the miles driven since the last FuelStop (or since Pickup) never
\* exceed 1000 at any point of the plan, Dropoff included.
C3_FuelEvery1000 == MilesSinceFuel <= FUEL_INTERVAL

\* ------------------------------------------------------------------ C4
\* C4: the hours driven since the most recent Break or Rest (or since
\* Pickup) never exceed 8, and once they have reached 8 with distance
\* remaining, a Break stands at the current distance before the next drive
\* segment starts.
C4_BreakAfterEight ==
    /\ DrivenSinceBreak <= Hours(REQUIRED_BREAK_AFTER)
    /\ pc = "drive" =>
          LET before == {stops[k].distance_from_start :
                           k \in {j \in 1..Len(stops) :
                                    /\ stops[j].type \in {Break, Rest}
                                    /\ stops[j].distance_from_start < CurrentDistance}}
              prev == IF before = {} THEN 0
                      ELSE CHOOSE d \in before : \A e \in before : e <= d
          IN HoursFor(CurrentDistance - prev) >= Hours(REQUIRED_BREAK_AFTER)
                => \E k \in 1..Len(stops) :
                      /\ stops[k].type = Break
                      /\ stops[k].duration = BREAK_DURATION
                      /\ stops[k].distance_from_start = CurrentDistance

C4_Witness ==
    /\ pc = "drive"
    /\ CurrentDistance > 0
    /\ stops[Len(stops)].type = Break
    /\ stops[Len(stops)].distance_from_start = CurrentDistance
    /\ current_cycle_used = 30

C6_DistanceMonotone ==
    /\ \A k \in 1..Len(stops) : \A l \in 1..Len(stops) :
          k < l => stops[k].distance_from_start <= stops[l].distance_from_start
    /\ \A k \in 1..Len(stops) :
          /\ 0 <= stops[k].distance_from_start
          /\ stops[k].distance_from_start <= total_distance

C6_Witness ==
    /\ pc = "done"
    /\ \E k \in 1..Len(stops) : \E l \in 1..Len(stops) :
          /\ 0 < stops[k].distance_from_start
          /\ stops[k].distance_from_start < stops[l].distance_from_start
          /\ stops[l].distance_from_start < total_distance

\* ------------------------------------------------------------------ C7
\* C7: at every loop step the miles driven so far plus remaining_distance
\* equal total_distance, remaining_distance is never negative, and at loop
\* exit remaining_distance is 0, so the drive segments sum to
\* total_distance.
C7_DistanceConserved ==
    /\ driven + remaining_distance = total_distance
    /\ remaining_distance >= 0
    /\ pc \in {"dropoff", "logs", "done"} =>
          /\ remaining_distance = 0
          /\ driven = total_distance

C7_Witness ==
    /\ pc = "dropoff"
    /\ iterations >= 2
    /\ drive_hours < Hours(SEGMENT_CAP)
    /\ driven = total_distance

\* ------------------------------------------------------------------ C8
\* C8: the planning loop terminates: every drive step has drive_hours > 0
\* and strictly decreases remaining_distance, the checks of an iteration
\* always lead to its drive step, and the Dropoff stop is eventually
\* emitted.
C8_Terminates ==
    /\ [][/\ pc = "drive" => /\ remaining_distance > 0
                             /\ drive_hours' > 0
                             /\ remaining_distance' < remaining_distance
          /\ pc = "fuel" => pc' = "break"
          /\ pc = "break" => pc' = "rest"
          /\ pc = "rest" => pc' = "drive"]_vars
    /\ [](pc = "fuel" => <>(pc = "while"))
    /\ <>(Planned /\ HasStop(Dropoff))

C8_Witness ==
    /\ Planned
    /\ HasStop(Dropoff)
    /\ HasStop(FuelStop)
    /\ HasStop(Break)
    /\ HasStop(Rest)
    /\ iterations > 10

\* ------------------------------------------------------------------ C9
\* the status mapping of the specification, by stop type
StatusFor(t) ==
    CASE t = Rest -> "OFF"
      [] t = Break -> "SB"
      [] t = Pickup -> "ON"
      [] t = Dropoff -> "ON"
      [] t = FuelStop -> "ON"

\* C9: the log generator emits one entry per stop, in order, with remarks
\* equal to the stop's type and status Rest -> OFF, Break -> SB,
\* Pickup/Dropoff -> ON, FuelStop -> ON; status D never appears.
C9_LogPerStop ==
    /\ Len(logs) <= Len(stops)
    /\ pc = "logs" => Len(logs) = i - 1
    /\ pc = "done" => /\ Len(logs) = Len(stops)
                      /\ response.eld_logs = logs
    /\ \A k \in 1..Len(logs) :
          /\ logs[k].remarks = stops[k].type
          /\ logs[k].status = StatusFor(stops[k].type)
          /\ logs[k].status \in {"ON", "SB", "OFF"}

C9_Witness ==
    /\ pc = "done"
    /\ \E k \in 1..Len(logs) : logs[k].status = "OFF"
    /\ \E k \in 1..Len(logs) : logs[k].status = "SB"
    /\ \E k \in 1..Len(logs) : logs[k].remarks = FuelStop /\ logs[k].status = "ON"

\* ----------------------------------------------------------------- C10
RECURSIVE NonRestDurationBefore(_)
\* the durations of the non-Rest stops before stop k, in minutes
NonRestDurationBefore(k) ==
    IF k <= 1 THEN 0
    ELSE NonRestDurationBefore(k - 1)
         + (IF stops[k - 1].type = Rest THEN 0 ELSE stops[k - 1].duration)

\* minutes carried by a log entry's hours_driven (kept in tenths of an hour)
EntryMinutes(k) == logs[k].hours_driven * 6

Abs(x) == IF x < 0 THEN -x ELSE x

\* C10 as stated: the first entry carries initial_cycle_hours, a non-Rest
\* stop adds its duration to the hours_driven of the following entry, a
\* Rest adds nothing, and hours_driven never decreases.
C10_HoursDrivenExact ==
    /\ Len(logs) >= 1 => EntryMinutes(1) = current_cycle_used
    /\ \A k \in 1..(Len(logs) - 1) :
          /\ EntryMinutes(k + 1) =
                EntryMinutes(k)
                + (IF stops[k].type = Rest THEN 0 ELSE stops[k].duration)
          /\ logs[k].hours_driven <= logs[k + 1].hours_driven

\* C10 amended: every entry carries, rounded to one decimal (so within
\* 0.05 h), initial_cycle_hours plus the durations of the non-Rest stops
\* before it; hours_driven never decreases, and the entry after a Rest
\* carries the same hours_driven as the Rest entry.
C10_HoursDrivenRounded ==
    /\ \A k \in 1..Len(logs) :
          Abs(EntryMinutes(k) - (current_cycle_used + NonRestDurationBefore(k))) <= 3
    /\ \A k \in 1..(Len(logs) - 1) :
          /\ logs[k].hours_driven <= logs[k + 1].hours_driven
          /\ stops[k].type = Rest => logs[k + 1].hours_driven = logs[k].hours_driven
          /\ stops[k].type # Rest => logs[k + 1].hours_driven > logs[k].hours_driven
    /\ pc = "logs" => log_hours = current_cycle_used + NonRestDurationBefore(i)

C10_Witness ==
    /\ pc = "done"
    /\ current_cycle_used = 315
    /\ \E k \in 1..(Len(logs) - 1) : stops[k].type = Rest
    /\ \E k \in 1..(Len(logs) - 1) : stops[k].type = Break

\* ----------------------------------------------------------------- C11
StatusesOf(seq) == [k \in 1..Len(seq) |-> seq[k].status]

DistancesOf(seq) == [k \in 1..Len(seq) |-> seq[k].distance_from_start]

\* C11: for total_distance = 0 and any initial_cycle_hours the planning
\* loop is never entered; the stops are exactly [Pickup at 0, Dropoff at 0]
\* and the logs are exactly 2 entries with statuses [ON, ON].
C11_ZeroDistance ==
    total_distance = 0 =>
        /\ pc \notin {"fuel", "break", "rest", "drive"}
        /\ iterations = 0
        /\ Planned => /\ TypesOf(stops) = <<Pickup, Dropoff>>
                      /\ DistancesOf(stops) = <<0, 0>>
        /\ pc = "done" => /\ TypesOf(response.stops) = <<Pickup, Dropoff>>
                          /\ Len(response.eld_logs) = 2
                          /\ StatusesOf(response.eld_logs) = <<"ON", "ON">>

C11_Witness ==
    /\ pc = "done"
    /\ total_distance = 0
    /\ current_cycle_used >= Hours(MAX_DRIVING_HOURS)
    /\ Len(response.eld_logs) = 2

\* ----------------------------------------------------------------- C12
\* C12: with initial_cycle_hours = 0, the 500-mile trip gets no Rest,
\* exactly one Break and no FuelStop; a trip under 660 miles gets no Rest
\* and a trip under 1000 miles gets no FuelStop.
C12_ShortTrips ==
    current_cycle_used = 0 =>
        /\ total_distance < MilesIn(Hours(MAX_DRIVING_HOURS)) => CountOf(Rest) = 0
        /\ total_distance < FUEL_INTERVAL => CountOf(FuelStop) = 0
        /\ (Planned /\ total_distance = 500) =>
              /\ CountOf(Rest) = 0
              /\ CountOf(Break) = 1
              /\ CountOf(FuelStop) = 0

C12_Witness ==
    /\ pc = "done"
    /\ current_cycle_used = 0
    /\ total_distance = 500
    /\ CountOf(Break) = 1

\* ----------------------------------------------------------------- C13
\* C13: for total_distance = 1500 and initial_cycle_hours = 0 the stop
\* sequence has at least one FuelStop and at least one Break, each strictly
\* between Pickup and Dropoff.
C13_LongTrip ==
    (Planned /\ total_distance = 1500 /\ current_cycle_used = 0) =>
        /\ stops[1].type = Pickup
        /\ stops[Len(stops)].type = Dropoff
        /\ \E k \in 2..(Len(stops) - 1) : stops[k].type = FuelStop
        /\ \E k \in 2..(Len(stops) - 1) : stops[k].type = Break

C13_Witness ==
    /\ pc = "done"
    /\ total_distance = 1500
    /\ current_cycle_used = 0
    /\ HasStop(FuelStop)
    /\ HasStop(Break)

\* ----------------------------------------------------------------- C14
\* position of a stop type in the order of the checks of one iteration
CheckRank(t) ==
    CASE t = FuelStop -> 1
      [] t = Break -> 2
      [] t = Rest -> 3

\* indexes of the stops between Pickup and Dropoff
Intermediate == {k \in 1..Len(stops) : stops[k].type \notin {Pickup, Dropoff}}

\* C14: among the stops emitted at one and the same distance between
\* Pickup and Dropoff there is at most one FuelStop, one Break and one
\* Rest, and they stand in the order FuelStop, Break, Rest.
C14_CheckOrder ==
    \A k \in Intermediate : \A l \in Intermediate :
        (k < l /\ stops[k].distance_from_start = stops[l].distance_from_start)
            => CheckRank(stops[k].type) < CheckRank(stops[l].type)

\* a Break and a Rest emitted at the same distance, before further driving
C14_Witness ==
    /\ pc = "drive"
    /\ Len(stops) >= 3
    /\ stops[Len(stops) - 1].type = Break
    /\ stops[Len(stops)].type = Rest
    /\ stops[Len(stops) - 1].distance_from_start = CurrentDistance
    /\ stops[Len(stops)].distance_from_start = CurrentDistance
    /\ CurrentDistance > 0

\* ----------------------------------------------------------------- C15
\* C15: when drive_hours is computed, after the three checks,
\* distance_since_fuel < 1000, hours_driven_since_break < 8 and
\* current_cycle_hours < 11; an initial_cycle_hours >= 11 yields a Rest at
\* distance 0 before the first segment.
C15_NoDriveAtLimit ==
    pc = "drive" =>
        /\ total_distance > 0
        /\ distance_since_fuel < FUEL_INTERVAL
        /\ hours_driven < Hours(REQUIRED_BREAK_AFTER)
        /\ current_hours < Hours(MAX_DRIVING_HOURS)
        /\ (iterations = 0 /\ current_cycle_used >= Hours(MAX_DRIVING_HOURS)) =>
              /\ TypesOf(stops) = <<Pickup, Rest>>
              /\ DistancesOf(stops) = <<0, 0>>

C15_Witness ==
    /\ pc = "drive"
    /\ iterations = 0
    /\ current_cycle_used = Hours(MAX_CYCLE_HOURS)
    /\ current_hours = 0
    /\ stops[Len(stops)].type = Rest

\* ----------------------------------------------------------------- C16
\* C16: a FuelStop resets distance_since_fuel only, a Break resets
\* hours_driven_since_break only, a Rest resets current_cycle_hours and
\* hours_driven_since_break only; none of them changes remaining_distance.
C16_StopFrames ==
    [][LET emitted == Len(stops') = Len(stops) + 1
           t == stops'[Len(stops')].type
       IN /\ (emitted /\ t = FuelStop) =>
                /\ distance_since_fuel' = 0
                /\ UNCHANGED <<current_hours, hours_driven, remaining_distance>>
          /\ (emitted /\ t = Break) =>
                /\ hours_driven' = 0
                /\ UNCHANGED <<current_hours, distance_since_fuel, remaining_distance>>
          /\ (emitted /\ t = Rest) =>
                /\ current_hours' = 0
                /\ hours_driven' = 0
                /\ UNCHANGED <<distance_since_fuel, remaining_distance>>]_vars

\* a Rest has just been emitted while the other counter was not at 0
C16_Witness ==
    /\ pc = "drive"
    /\ stops[Len(stops)].type = Rest
    /\ current_hours = 0
    /\ hours_driven = 0
    /\ distance_since_fuel > 0
    /\ HasStop(FuelStop)
    /\ HasStop(Break)

\* ----------------------------------------------------------------- C17
\* C17: no drive segment exceeds 2 hours (120 miles); every iteration
\* drives min(2, remaining_distance / 60) hours, so every segment but
\* possibly the last is exactly 2 hours, and the distances of intermediate
\* stops differ by multiples of 120 miles.
C17_SegmentCap ==
    /\ [](/\ drive_hours <= Hours(2)
          /\ \A k \in Intermediate : \A l \in Intermediate :
                k < l => (stops[l].distance_from_start
                          - stops[k].distance_from_start) % 120 = 0)
    /\ [][pc = "drive" =>
             /\ drive_hours' <= Hours(2)
             /\ driven' - driven <= 120
             /\ drive_hours' * AVERAGE_SPEED <= remaining_distance * MinutesPerHour
             /\ \/ drive_hours' = Hours(2)
                \/ drive_hours' * AVERAGE_SPEED = remaining_distance * MinutesPerHour
             /\ remaining_distance' > 0 => drive_hours' = Hours(2)]_vars

\* a trip that ended with a segment shorter than 2 hours, after stops at
\* two different distances
C17_Witness ==
    /\ pc = "while"
    /\ remaining_distance = 0
    /\ 0 < drive_hours
    /\ drive_hours < Hours(SEGMENT_CAP)
    /\ \E k \in Intermediate : \E l \in Intermediate :
          stops[k].distance_from_start < stops[l].distance_from_start

\* ----------------------------------------------------------------- C18
\* the Rest stop at distance 0
RestAtStart ==
    [type |-> Rest, duration |-> Hours(OFF_DUTY_REQUIRED),
     distance_from_start |-> 0]

\* C18: for total_distance > 0 every initial_cycle_hours >= 11 (14 and 70
\* included) yields Pickup, a single Rest at distance 0, and then exactly the
\* intermediate stops and the Dropoff that initial_cycle_hours = 0 yields
\* for the same total_distance.
C18_OnlyElevenGates ==
    /\ (Planned /\ current_cycle_used = 0) =>
          stops = PlanStops(total_distance, 0)
    /\ (Planned /\ total_distance > 0
           /\ current_cycle_used >= Hours(MAX_DRIVING_HOURS)) =>
          /\ stops = <<stops[1], RestAtStart>>
                     \o Tail(PlanStops(total_distance, 0))
          /\ stops[1].type = Pickup
          /\ Cardinality({k \in 1..Len(stops) :
                            /\ stops[k].type = Rest
                            /\ stops[k].distance_from_start = 0}) = 1

C18_Witness ==
    /\ pc = "done"
    /\ current_cycle_used = Hours(MAX_CYCLE_HOURS)
    /\ total_distance = 1500
    /\ CountOf(Rest) = 3
    /\ HasStop(FuelStop)

\* ----------------------------------------------------------------- C19
RECURSIVE DurationBefore(_)
\* the durations of all stops before stop k, in minutes
DurationBefore(k) ==
    IF k <= 1 THEN 0 ELSE DurationBefore(k - 1) + stops[k - 1].duration

\* the clock value a log entry's date and time stand for, in minutes
Timestamp(k) == logs[k].date * 1440 + logs[k].time

\* C19: the first entry carries the start clock value, entry k carries the
\* start clock plus the durations of all stops before k (Rest included),
\* timestamps never decrease, and the time from the Pickup entry to the
\* Dropoff entry is made of stop durations only: 1 h for Pickup, 0.5 h per
\* FuelStop and Break, 10 h per Rest, nothing for the miles driven.
C19_ClockFromDurations ==
    /\ \A k \in 1..Len(logs) :
          /\ logs[k].time \in 0..1439
          /\ Timestamp(k) = start_time + DurationBefore(k)
    /\ Len(logs) >= 1 => Timestamp(1) = start_time
    /\ \A k \in 1..(Len(logs) - 1) : Timestamp(k) <= Timestamp(k + 1)
    /\ pc = "done" =>
          Timestamp(Len(logs)) - Timestamp(1) =
              60 + 30 * (CountOf(FuelStop) + CountOf(Break)) + 600 * CountOf(Rest)

\* a log that starts late in the day, holds a Rest and ends on a later day
C19_Witness ==
    /\ pc = "done"
    /\ start_time = 1430
    /\ total_distance >= 1500
    /\ HasStop(Rest)
    /\ HasStop(FuelStop)
    /\ logs[Len(logs)].date > logs[1].date
====
